---- MODULE Spec2Model ----
(***************************************************************************)
(* A model of the rust-blockchain node: the Chain (block list and balance  *)
(* snapshot behind two mutexes), the TransactionPool, and the callers of   *)
(* Blockchain::add_block (Miner, PeerSync, API).                           *)
(*                                                                         *)
(* BlockHash is U256 in the source; the model keeps the arithmetic of the  *)
(* hash checks (comparison, leading_zeros) on a HashBits-wide unsigned     *)
(* integer, and replaces SHA-256 over the JSON form of a block by a        *)
(* deterministic mixing function of the same fields.                       *)
(***************************************************************************)
EXTENDS Integers, Sequences, FiniteSets, TLC

(***************************************************************************)
(* Bounds of the model.                                                    *)
(***************************************************************************)
\* width in bits of the modelled BlockHash
HashBits == 3
\* the block list holds at most MaxChain blocks (genesis included)
MaxChain == 3
\* nonces a caller tries: 0 .. MaxNonce - 1
MaxNonce == 2
\* a candidate block carries at most MaxBlockTxs transactions
MaxBlockTxs == 3
\* add_transaction is called at most MaxPoolAdds times
MaxPoolAdds == 2

(***************************************************************************)
(* Values.                                                                 *)
(***************************************************************************)
BLOCK_SUBSIDY == 100

\* Address::default(): the all-zero address
ZeroAddress == 0
Addresses == {ZeroAddress, 1}
Amounts == {60, BLOCK_SUBSIDY}
Times == {1}
\* difficulty is a u32: values above the hash width are legal
Difficulties == {0, 1, HashBits + 1}
\* Config.miner_address
MinerAddresses == {ZeroAddress}
\* Config.max_blocks; 0 is no limit
BlockLimits == {0, 1}
\* the difficulty of the remote node
RemoteDifficulty == 0

RECURSIVE Pow2(_)
Pow2(n) == IF n = 0 THEN 1 ELSE 2 * Pow2(n - 1)

HashSpace == Pow2(HashBits)
\* BlockHash::default()
ZeroHash == 0

Transaction == [sender : Addresses, recipient : Addresses, amount : Amounts]

RECURSIVE SeqsUpTo(_, _)
SeqsUpTo(S, n) ==
    IF n = 0 THEN {<<>>}
    ELSE LET shorter == SeqsUpTo(S, n - 1)
         IN  shorter \cup {Append(s, x) : s \in {q \in shorter : Len(q) = n - 1}, x \in S}

TxLists == SeqsUpTo(Transaction, MaxBlockTxs)

(***************************************************************************)
(* Block: hashing.                                                         *)
(***************************************************************************)
TxDigest(tx) == tx.sender * 5 + tx.recipient * 3 + tx.amount + 1

RECURSIVE TxsDigest(_)
TxsDigest(txs) ==
    IF txs = <<>> THEN 1
    ELSE (TxsDigest(SubSeq(txs, 1, Len(txs) - 1)) * 7 + TxDigest(txs[Len(txs)])) % HashSpace

\* the digest of the serialized block, reduced to the hash width
Sha256(data) ==
    (data.index * 3 + data.timestamp * 5 + data.nonce * 3 + data.previous_hash * 7
       + data.hash + TxsDigest(data.transactions)) % HashSpace

calculate_hash(block) ==
    LET hashable_data == [block EXCEPT !.hash = ZeroHash]
    IN  Sha256(hashable_data)

\* Block::new, with the clock reading it takes
Block_new(index, nonce, previous_hash, transactions, now) ==
    LET block == [index |-> index, timestamp |-> now, nonce |-> nonce,
                  previous_hash |-> previous_hash, hash |-> ZeroHash,
                  transactions |-> transactions]
    IN  [block EXCEPT !.hash = calculate_hash(block)]

RECURSIVE BitLen(_)
BitLen(n) == IF n = 0 THEN 0 ELSE 1 + BitLen(n \div 2)

\* U256::leading_zeros on the modelled width
leading_zeros(h) == HashBits - BitLen(h)

(***************************************************************************)
(* AccountBalanceMap: a map from the addresses that have an entry to their *)
(* balance.                                                                *)
(***************************************************************************)
EmptyBalances == << >>

add_amount(balances, recipient, amount) ==
    IF recipient \in DOMAIN balances
    THEN [balances EXCEPT ![recipient] = @ + amount]
    ELSE [a \in (DOMAIN balances) \cup {recipient} |->
             IF a = recipient THEN amount ELSE balances[a]]

transfer(balances, sender, recipient, amount) ==
    IF sender \notin DOMAIN balances
    THEN [err |-> "SenderAccountDoesNotExist", balances |-> balances]
    ELSE IF balances[sender] < amount
    THEN [err |-> "InsufficientFunds", balances |-> balances]
    ELSE [err |-> "Ok",
          balances |-> add_amount([balances EXCEPT ![sender] = @ - amount],
                                  recipient, amount)]

(***************************************************************************)
(* Blockchain.                                                             *)
(***************************************************************************)
\* a genesis block that keeps the time Block::new read
create_genesis_block_unstamped ==
    Block_new(0, 0, ZeroHash, <<>>, CHOOSE now \in Times : TRUE)

create_genesis_block ==
    LET block == Block_new(0, 0, ZeroHash, <<>>, CHOOSE now \in Times : TRUE)
        stamped == [block EXCEPT !.timestamp = 0]
    IN  [stamped EXCEPT !.hash = calculate_hash(stamped)]

\* a coinbase step that moves the subsidy out of the sender's balance
process_coinbase_as_transfer(balances, transactions) ==
    IF transactions = <<>>
    THEN [err |-> "CoinbaseTransactionNotFound", balances |-> balances]
    ELSE LET coinbase == transactions[1] IN
         IF coinbase.amount # BLOCK_SUBSIDY
         THEN [err |-> "InvalidCoinbaseAmount", balances |-> balances]
         ELSE transfer(balances, coinbase.sender, coinbase.recipient, coinbase.amount)

\* a coinbase step that credits the sender of the coinbase
process_coinbase_to_sender(balances, transactions) ==
    IF transactions = <<>>
    THEN [err |-> "CoinbaseTransactionNotFound", balances |-> balances]
    ELSE LET coinbase == transactions[1] IN
         IF coinbase.amount # BLOCK_SUBSIDY
         THEN [err |-> "InvalidCoinbaseAmount", balances |-> balances]
         ELSE [err |-> "Ok",
               balances |-> add_amount(balances, coinbase.sender, coinbase.amount)]

process_coinbase(balances, transactions) ==
    IF transactions = <<>>
    THEN [err |-> "CoinbaseTransactionNotFound", balances |-> balances]
    ELSE LET coinbase == transactions[1] IN
         IF coinbase.amount # BLOCK_SUBSIDY
         THEN [err |-> "InvalidCoinbaseAmount", balances |-> balances]
         ELSE [err |-> "Ok",
               balances |-> add_amount(balances, coinbase.recipient, coinbase.amount)]

\* a replay that applies the transfers from the last one to the first
RECURSIVE process_transfers_reversed(_, _)
process_transfers_reversed(balances, transactions) ==
    IF transactions = <<>>
    THEN [err |-> "Ok", balances |-> balances]
    ELSE LET tx == transactions[Len(transactions)]
             r == transfer(balances, tx.sender, tx.recipient, tx.amount)
         IN  IF r.err # "Ok" THEN r
             ELSE process_transfers_reversed(r.balances,
                                             SubSeq(transactions, 1, Len(transactions) - 1))

RECURSIVE process_transfers(_, _)
process_transfers(balances, transactions) ==
    IF transactions = <<>>
    THEN [err |-> "Ok", balances |-> balances]
    ELSE LET tx == transactions[1]
             r == transfer(balances, tx.sender, tx.recipient, tx.amount)
         IN  IF r.err # "Ok" THEN r
             ELSE process_transfers(r.balances, Tail(transactions))

\* a replay that runs the transfers before crediting the coinbase
calculate_new_account_balance_coinbase_last(account_balances, transactions) ==
    LET c == process_coinbase(account_balances, transactions)
    IN  IF c.err # "Ok" THEN c
        ELSE LET t == process_transfers(account_balances, Tail(transactions))
             IN  IF t.err # "Ok" THEN t
                 ELSE process_coinbase(t.balances, transactions)

\* the scratch copy after the replay, and the error that stopped it
calculate_new_account_balance(account_balances, transactions) ==
    LET c == process_coinbase(account_balances, transactions)
    IN  IF c.err # "Ok" THEN c
        ELSE process_transfers(c.balances, Tail(transactions))

\* an update that replays into the snapshot itself instead of a scratch copy
udpate_account_balance_in_place(account_balances, transactions) ==
    calculate_new_account_balance(account_balances, transactions)

\* the balance snapshot after udpate_account_balance, and its result
udpate_account_balance(account_balances, transactions) ==
    LET new_account_balances == calculate_new_account_balance(account_balances, transactions)
    IN  IF new_account_balances.err # "Ok"
        THEN [err |-> new_account_balances.err, balances |-> account_balances]
        ELSE [err |-> "Ok", balances |-> new_account_balances.balances]

\* the header checks with the hash check moved in front of the index check
check_block_hash_first(chain, diff, block) ==
    LET last == chain[Len(chain)] IN
    IF block.hash # calculate_hash(block) THEN "InvalidHash"
    ELSE IF block.index # last.index + 1 THEN "InvalidIndex"
    ELSE IF block.previous_hash # last.hash THEN "InvalidPreviousHash"
    ELSE IF leading_zeros(block.hash) < diff THEN "InvalidDifficulty"
    ELSE "Ok"

\* the header checks without the hash check
check_block_no_hash(chain, diff, block) ==
    LET last == chain[Len(chain)] IN
    IF block.index # last.index + 1 THEN "InvalidIndex"
    ELSE IF block.previous_hash # last.hash THEN "InvalidPreviousHash"
    ELSE IF leading_zeros(block.hash) < diff THEN "InvalidDifficulty"
    ELSE "Ok"

\* the header checks without the difficulty check
check_block_no_difficulty(chain, diff, block) ==
    LET last == chain[Len(chain)] IN
    IF block.index # last.index + 1 THEN "InvalidIndex"
    ELSE IF block.previous_hash # last.hash THEN "InvalidPreviousHash"
    ELSE IF block.hash # calculate_hash(block) THEN "InvalidHash"
    ELSE "Ok"

\* the four header checks of add_block, in the order of the code
check_block(chain, diff, block) ==
    LET last == chain[Len(chain)] IN
    IF block.index # last.index + 1 THEN "InvalidIndex"
    ELSE IF block.previous_hash # last.hash THEN "InvalidPreviousHash"
    ELSE IF block.hash # calculate_hash(block) THEN "InvalidHash"
    ELSE IF leading_zeros(block.hash) < diff THEN "InvalidDifficulty"
    ELSE "Ok"

\* Blockchain::get_last_block on the block list `chain`
get_last_block(chain) == chain[Len(chain)]

\* add_block run by a single caller: the result and the Chain afterwards
add_block(chain, balances, diff, block) ==
    LET header == check_block(chain, diff, block) IN
    IF header # "Ok"
    THEN [err |-> header, blocks |-> chain, balances |-> balances]
    ELSE LET u == udpate_account_balance(balances, block.transactions) IN
         IF u.err # "Ok"
         THEN [err |-> u.err, blocks |-> chain, balances |-> u.balances]
         ELSE [err |-> "Ok", blocks |-> Append(chain, block), balances |-> u.balances]

(***************************************************************************)
(* Miner: the pure parts.                                                  *)
(***************************************************************************)
\* a shift whose amount wraps at the hash width, as the shifts of the primitive
\* integers do
create_target_wrapping(diff) == (HashSpace - 1) \div Pow2(diff % HashBits)

\* a shift by one bit less than the difficulty
create_target_one_bit_short(diff) ==
    (HashSpace - 1) \div Pow2(IF diff = 0 THEN 0 ELSE diff - 1)

\* BlockHash::MAX >> difficulty
create_target(diff) == (HashSpace - 1) \div Pow2(diff)

\* a limit check that lets one more block through
must_stop_mining_one_late(limit, counter) == limit > 0 /\ counter > limit

must_stop_mining(limit, counter) == limit > 0 /\ counter >= limit

create_coinbase_transaction(address) ==
    [sender |-> ZeroAddress, recipient |-> address, amount |-> BLOCK_SUBSIDY]

create_next_block(tip, txs, nonce, now) ==
    Block_new(tip.index + 1, nonce, tip.hash, txs, now)

\* Option::None of mine_block
NoBlock == [index |-> 0, timestamp |-> 0, nonce |-> 0, previous_hash |-> ZeroHash,
            hash |-> ZeroHash, transactions |-> <<>>]

\* a nonce loop that also accepts a hash equal to the target
RECURSIVE nonce_search_non_strict(_, _, _, _, _, _)
nonce_search_non_strict(tip, block_transactions, target_hash, nonce_limit, clock, nonce) ==
    IF nonce >= nonce_limit THEN NoBlock
    ELSE LET next_block == create_next_block(tip, block_transactions, nonce, clock[nonce])
         IN  IF next_block.hash <= target_hash THEN next_block
             ELSE nonce_search_non_strict(tip, block_transactions, target_hash, nonce_limit,
                                          clock, nonce + 1)

\* the for loop of mine_block from `nonce` on; clock[n] is the time read when
\* the block of nonce n is built
RECURSIVE nonce_search(_, _, _, _, _, _)
nonce_search(tip, block_transactions, target_hash, nonce_limit, clock, nonce) ==
    IF nonce >= nonce_limit THEN NoBlock
    ELSE LET next_block == create_next_block(tip, block_transactions, nonce, clock[nonce])
         IN  IF next_block.hash < target_hash THEN next_block
             ELSE nonce_search(tip, block_transactions, target_hash, nonce_limit, clock,
                               nonce + 1)

\* a mine_block that puts the coinbase after the popped transactions
mine_block_coinbase_last(tip, txs, address, target_hash, nonce_limit, clock) ==
    LET coinbase == create_coinbase_transaction(address)
        block_transactions == txs \o <<coinbase>>
    IN  nonce_search(tip, block_transactions, target_hash, nonce_limit, clock, 0)

mine_block(tip, txs, address, target_hash, nonce_limit, clock) ==
    LET coinbase == create_coinbase_transaction(address)
        block_transactions == <<coinbase>> \o txs
    IN  nonce_search(tip, block_transactions, target_hash, nonce_limit, clock, 0)

(***************************************************************************)
(* State.                                                                  *)
(***************************************************************************)
VARIABLES
    difficulty,        \* Blockchain.difficulty
    blocks,            \* Blockchain.blocks
    account_balances,  \* Blockchain.account_balances
    blocks_lock,       \* the thread holding the mutex of Blockchain.blocks
    balances_lock,     \* the thread holding the mutex of Blockchain.account_balances
    pool,              \* TransactionPool.transaction
    pool_lock,         \* the thread holding the mutex of the pool
    pc,                \* where each thread is
    block,             \* the argument of each thread's add_block call
    result,            \* what each thread's last add_block call returned
    miner_address,     \* Miner.miner_address
    max_blocks,        \* Miner.max_blocks
    max_nonce,         \* Miner.max_nonce
    target,            \* Miner.target
    transactions,      \* the Miner's local `transactions` (the popped list)
    block_counter,     \* the Miner's local `block_counter`
    new_blocks,        \* PeerSync: the blocks of the batch not yet submitted
    last_index,        \* PeerSync: the local index get_new_blocks_from_peer read
    peer_blocks,       \* the block list the configured peer serves
    peer_addresses,    \* Peer.peer_addresses
    address_i,         \* PeerSync: position of `address` in the loop over peer_addresses
    last_sent_block_index, \* Peer::start's local `last_sent_block_index`
    last_block_index,  \* PeerSync: the local index get_new_blocks_since read
    attempted,         \* <<address, block index, sent>> of every send of this cycle
    pull_failed,       \* the addresses whose pull was caught failing in this cycle
    pool_adds,         \* number of add_transaction calls made so far
    added,             \* every transaction pushed to the pool, in push order
    popped,            \* every transaction a pop returned, in return order
    last_pop,          \* what the latest pop returned
    tx_arg,            \* the argument of each thread's add_transaction call
    call               \* the add_block call just made by the single caller, or NoCall

chainVars == <<difficulty, blocks, account_balances>>
lockVars == <<blocks_lock, balances_lock>>
poolVars == <<pool, pool_lock, pool_adds, added, popped, last_pop, tx_arg>>
threadVars == <<pc, block, result>>
minerVars == <<miner_address, max_blocks, max_nonce, target, transactions, block_counter>>
syncVars == <<peer_addresses, address_i, last_sent_block_index, last_block_index,
              attempted, pull_failed>>
peerVars == <<new_blocks, last_index, peer_blocks, syncVars>>

vars == <<chainVars, lockVars, poolVars, threadVars, minerVars, peerVars, call>>

NoThread == "none"
NoCall == [block |-> <<>>, err |-> "None", tip |-> <<>>, before |-> <<>>]

\* a lock that never waits
can_lock_always(holder) == TRUE

\* Mutex::lock returns once no thread holds the mutex
can_lock(holder) == holder = NoThread

\* Blockchain::new
Blockchain_new(diff) ==
    /\ difficulty = diff
    /\ blocks = <<create_genesis_block>>
    /\ account_balances = EmptyBalances
    /\ blocks_lock = NoThread
    /\ balances_lock = NoThread

\* TransactionPool::new
\* Peer::new with the configured peers; Peer::start has not run yet
Peer_new(addresses) ==
    /\ peer_addresses = addresses
    /\ address_i = 0
    /\ last_sent_block_index = 0
    /\ last_block_index = 0
    /\ attempted = {}
    /\ pull_failed = {}

TransactionPool_new ==
    /\ pool = <<>>
    /\ pool_lock = NoThread
    /\ pool_adds = 0
    /\ added = <<>>
    /\ popped = <<>>
    /\ last_pop = <<>>

(***************************************************************************)
(* SpecSeq: one caller at a time submits candidate blocks to add_block.    *)
(***************************************************************************)
\* candidate blocks a caller may submit when the tip is `last`
Candidates(last) ==
    { [b EXCEPT !.hash = (b.hash + tamper) % HashSpace] :
        b \in { Block_new(i, n, ph, txs, now) :
                  i \in {last.index, last.index + 1, last.index + 2},
                  n \in 0 .. MaxNonce - 1,
                  ph \in {last.hash, (last.hash + 1) % HashSpace},
                  txs \in TxLists,
                  now \in Times },
        tamper \in {0, 1} }

InitSeq ==
    /\ \E d \in Difficulties : Blockchain_new(d)
    /\ TransactionPool_new
    /\ tx_arg = << >>
    /\ pc = << >>
    /\ block = << >>
    /\ result = << >>
    /\ miner_address = ZeroAddress
    /\ max_blocks = 0
    /\ max_nonce = MaxNonce
    /\ target = create_target(difficulty)
    /\ transactions = <<>>
    /\ block_counter = 0
    /\ new_blocks = <<>>
    /\ Peer_new(<<>>)
    /\ last_index = 0
    /\ peer_blocks = <<>>
    /\ call = NoCall

SeqAddBlock ==
    /\ call = NoCall
    /\ Len(blocks) < MaxChain
    /\ \E candidate \in Candidates(blocks[Len(blocks)]) :
          LET r == add_block(blocks, account_balances, difficulty, candidate) IN
          /\ blocks' = r.blocks
          /\ account_balances' = r.balances
          /\ call' = [block |-> candidate, err |-> r.err,
                       tip |-> blocks[Len(blocks)], before |-> account_balances]
    /\ UNCHANGED <<difficulty, lockVars, poolVars, threadVars, minerVars, peerVars>>

SeqReturn ==
    /\ call # NoCall
    /\ call' = NoCall
    /\ UNCHANGED <<chainVars, lockVars, poolVars, threadVars, minerVars, peerVars>>

NextSeq == SeqAddBlock \/ SeqReturn

SpecSeq == InitSeq /\ [][NextSeq]_vars

(***************************************************************************)
(* Spec: the Miner, PeerSync and API threads run against one Chain and one *)
(* TransactionPool.  add_block is split at its lock operations.            *)
(***************************************************************************)
Threads == {"miner", "peer", "api"}

\* the balance snapshot of a node whose block list is `chain`
RECURSIVE ReplayChain(_)
ReplayChain(chain) ==
    IF Len(chain) <= 1 THEN EmptyBalances
    ELSE udpate_account_balance(ReplayChain(SubSeq(chain, 1, Len(chain) - 1)),
                                chain[Len(chain)].transactions).balances

\* the guard `blocks` taken at the top of add_block is dropped early
guard_dropped(t) == NoThread

\* the guard `blocks` taken at the top of add_block lives until add_block returns
guard_after_checks(t) == t

\* a push that overwrites the tip
push_over_tip(chain, candidate) == [chain EXCEPT ![Len(chain)] = candidate]

\* blocks.push(block)
push(chain, candidate) == Append(chain, candidate)

\* add_block: lock the block list and run the header checks
AddBlockCheck(t) ==
    /\ pc[t] = "add_block"
    /\ can_lock(blocks_lock)
    /\ LET e == check_block(blocks, difficulty, block[t]) IN
       IF e # "Ok"
       THEN /\ result' = [result EXCEPT ![t] = e]
            /\ pc' = [pc EXCEPT ![t] = "returned"]
            /\ UNCHANGED blocks_lock
       ELSE /\ blocks_lock' = guard_after_checks(t)
            /\ pc' = [pc EXCEPT ![t] = "ab_balances"]
            /\ UNCHANGED result
    /\ UNCHANGED <<chainVars, balances_lock, poolVars, block, minerVars, peerVars, call>>

\* udpate_account_balance: lock the balance snapshot
AddBlockLockBalances(t) ==
    /\ pc[t] = "ab_balances"
    /\ can_lock(balances_lock)
    /\ balances_lock' = t
    /\ pc' = [pc EXCEPT ![t] = "ab_update"]
    /\ UNCHANGED <<chainVars, blocks_lock, poolVars, block, result, minerVars, peerVars, call>>

\* udpate_account_balance: replay, swap the snapshot in, unlock; an error returns
\* from add_block and drops the guard of the block list
AddBlockUpdate(t) ==
    /\ pc[t] = "ab_update"
    /\ LET u == udpate_account_balance(account_balances, block[t].transactions) IN
       /\ account_balances' = u.balances
       /\ balances_lock' = NoThread
       /\ IF u.err # "Ok"
          THEN /\ result' = [result EXCEPT ![t] = u.err]
               /\ pc' = [pc EXCEPT ![t] = "returned"]
               /\ blocks_lock' = NoThread
          ELSE /\ pc' = [pc EXCEPT ![t] = "ab_push"]
               /\ UNCHANGED <<result, blocks_lock>>
    /\ UNCHANGED <<difficulty, blocks, poolVars, block, minerVars, peerVars, call>>

\* add_block: push the block and return Ok
AddBlockPush(t) ==
    /\ pc[t] = "ab_push"
    /\ blocks' = push(blocks, block[t])
    /\ blocks_lock' = NoThread
    /\ result' = [result EXCEPT ![t] = "Ok"]
    /\ pc' = [pc EXCEPT ![t] = "returned"]
    /\ UNCHANGED <<difficulty, account_balances, balances_lock, poolVars, block,
                   minerVars, peerVars, call>>

\* a pop that leaves the buffer as it is
clear_nothing(transaction) == transaction

\* TransactionPool::pop: transactions.clear()
clear(transaction) == <<>>

\* a pop that takes the last element only, as Vec::pop does
pop_last_only(transaction) ==
    IF transaction = <<>> THEN <<>> ELSE <<transaction[Len(transaction)]>>

\* TransactionPool::pop: the list returned, a clone of the whole buffer
pop(transaction) == transaction

\* Miner::start: the block limit is reached
MinerStop ==
    /\ pc["miner"] = "m_pop"
    /\ must_stop_mining(max_blocks, block_counter)
    /\ pc' = [pc EXCEPT !["miner"] = "m_stopped"]
    /\ UNCHANGED <<chainVars, lockVars, poolVars, block, result, minerVars, peerVars, call>>

\* a loop that mines a block of the coinbase alone when the pool is empty
after_pop_mines_empty(popped_transactions) == "m_mine"

\* Miner::start: `if transactions.is_empty() { sleep; continue }`
after_pop(popped_transactions) == IF popped_transactions = <<>> THEN "m_pop" ELSE "m_mine"

\* Miner::start: pop the pool; sleep and retry when it was empty
MinerPop ==
    /\ pc["miner"] = "m_pop"
    /\ ~must_stop_mining(max_blocks, block_counter)
    /\ can_lock(pool_lock)
    /\ transactions' = pop(pool)
    /\ pool' = clear(pool)
    /\ pc' = [pc EXCEPT !["miner"] = after_pop(pop(pool))]
    /\ UNCHANGED <<chainVars, lockVars, pool_lock, pool_adds, added, popped, last_pop, tx_arg,
                   block, result, miner_address, max_blocks, max_nonce, target, block_counter,
                   peerVars, call>>

\* an error that carries the index of the tip instead of the next index
BlockNotMined_at_tip(last_block) == last_block.index

\* the index carried by MinerError::BlockNotMined
BlockNotMined(last_block) == last_block.index + 1

\* Miner::start: get_last_block and mine_block
MinerMine ==
    /\ pc["miner"] = "m_mine"
    /\ can_lock(blocks_lock)
    /\ Len(blocks) < MaxChain
    /\ \E clock \in [0 .. MaxNonce - 1 -> Times] :
          LET last_block == get_last_block(blocks)
              mining_result == mine_block(last_block, transactions, miner_address,
                                          target, max_nonce, clock)
          IN  IF mining_result = NoBlock
              THEN /\ result' = [result EXCEPT !["miner"] = "BlockNotMined"]
                   /\ block' = [block EXCEPT !["miner"] = [NoBlock EXCEPT !.index = BlockNotMined(last_block)]]
                   /\ pc' = [pc EXCEPT !["miner"] = "m_failed"]
              ELSE /\ block' = [block EXCEPT !["miner"] = mining_result]
                   /\ pc' = [pc EXCEPT !["miner"] = "add_block"]
                   /\ UNCHANGED result
    /\ UNCHANGED <<chainVars, lockVars, poolVars, minerVars, peerVars, call>>

\* a Miner that goes on with the next iteration whatever add_block returned
on_add_block_result_ignored(r) == "m_pop"

\* `self.blockchain.add_block(block.clone())?`: where the Miner goes on
on_add_block_result(r) == IF r = "Ok" THEN "m_pop" ELSE "m_failed"

\* Miner::start: add_block returned
MinerAfterAdd ==
    /\ pc["miner"] = "returned"
    /\ IF result["miner"] = "Ok"
       THEN /\ block_counter' = block_counter + 1
            /\ pc' = [pc EXCEPT !["miner"] = on_add_block_result(result["miner"])]
            /\ block' = [block EXCEPT !["miner"] = NoBlock]
            /\ result' = [result EXCEPT !["miner"] = "None"]
            /\ transactions' = <<>>
       ELSE /\ pc' = [pc EXCEPT !["miner"] = on_add_block_result(result["miner"])]
            /\ UNCHANGED <<block_counter, block, result, transactions>>
    /\ UNCHANGED <<chainVars, lockVars, poolVars, miner_address, max_blocks, max_nonce, target,
                   peerVars, call>>

\* get_new_blocks_from_peer, after the fetch: the batch, or a panic
\* a range that starts at the local tip's index instead of the index after it
get_new_blocks_from_peer_from_tip(last, fetched) ==
    IF fetched = <<>> THEN [panic |-> TRUE, blocks |-> <<>>]
    ELSE LET peer_last_index == fetched[Len(fetched)].index IN
         IF peer_last_index <= last THEN [panic |-> FALSE, blocks |-> <<>>]
         ELSE IF peer_last_index + 1 > Len(fetched) THEN [panic |-> TRUE, blocks |-> <<>>]
         ELSE [panic |-> FALSE, blocks |-> SubSeq(fetched, last + 1, peer_last_index + 1)]

\* Peer::get_new_blocks_from_peer on the list the peer served: the blocks at
\* positions last + 1 ..= peer_last_index (0-based); unwrap panics
get_new_blocks_from_peer(last, fetched) ==
    IF fetched = <<>> THEN [panic |-> TRUE, blocks |-> <<>>]
    ELSE LET peer_last_index == fetched[Len(fetched)].index IN
         IF peer_last_index <= last THEN [panic |-> FALSE, blocks |-> <<>>]
         ELSE IF peer_last_index + 1 > Len(fetched) THEN [panic |-> TRUE, blocks |-> <<>>]
         ELSE [panic |-> FALSE, blocks |-> SubSeq(fetched, last + 2, peer_last_index + 1)]

\* get_new_blocks_from_peer: read the local tip index
PeerReadTip ==
    /\ pc["peer"] = "p_tip"
    /\ can_lock(blocks_lock)
    /\ last_index' = blocks[Len(blocks)].index
    /\ pc' = [pc EXCEPT !["peer"] = "p_fetch"]
    /\ UNCHANGED <<chainVars, lockVars, poolVars, block, result, minerVars, new_blocks,
                   peer_blocks, syncVars, call>>

\* a panic that is not caught ends the PeerSync thread
propagate_panic(panicked, next, caught) == IF panicked THEN "p_panicked" ELSE next

\* try_receive_new_blocks: panic::catch_unwind around one peer's pull; where
\* PeerSync goes on after the closure returned (next) or panicked (caught)
catch_unwind(panicked, next, caught) == IF panicked THEN caught ELSE next

\* try_receive_new_blocks: the request to the peer fails (no connection, a
\* status other than 200, a body that does not parse); the panic is caught
PeerFetchFail(next, caught) ==
    /\ pc["peer"] = "p_fetch"
    /\ pc' = [pc EXCEPT !["peer"] = catch_unwind(TRUE, next, caught)]
    /\ last_index' = 0
    /\ UNCHANGED <<chainVars, lockVars, poolVars, block, result, minerVars, new_blocks,
                   peer_blocks, syncVars, call>>

\* try_receive_new_blocks: the peer answers with one of the lists in `served`
PeerFetch(next, caught, served) ==
    /\ pc["peer"] = "p_fetch"
    /\ \E fetched \in served :
          LET got == get_new_blocks_from_peer(last_index, fetched) IN
          IF got.panic \/ got.blocks = <<>>
          THEN /\ pc' = [pc EXCEPT !["peer"] = catch_unwind(got.panic, next, caught)]
               /\ UNCHANGED <<new_blocks, block>>
          ELSE /\ new_blocks' = got.blocks
               /\ block' = [block EXCEPT !["peer"] = got.blocks[1]]
               /\ pc' = [pc EXCEPT !["peer"] = "add_block"]
    /\ last_index' = 0
    /\ UNCHANGED <<chainVars, lockVars, poolVars, result, minerVars, peer_blocks, syncVars,
                   call>>

\* a loop that logs the rejection and goes on with the next block
add_new_blocks_skip_rejected(r, batch) == Tail(batch)

\* Peer::add_new_blocks: the blocks of the batch still to submit once add_block
\* returned r for the first one; an error returns from the loop
add_new_blocks_next(r, batch) == IF r # "Ok" THEN <<>> ELSE Tail(batch)

\* add_new_blocks: add_block returned; stop at the first rejected block
PeerAfterAdd(next) ==
    /\ pc["peer"] = "returned"
    /\ LET rest == add_new_blocks_next(result["peer"], new_blocks) IN
       IF rest = <<>>
       THEN /\ new_blocks' = <<>>
            /\ pc' = [pc EXCEPT !["peer"] = next]
            /\ block' = [block EXCEPT !["peer"] = NoBlock]
       ELSE /\ new_blocks' = rest
            /\ block' = [block EXCEPT !["peer"] = rest[1]]
            /\ pc' = [pc EXCEPT !["peer"] = "add_block"]
    /\ result' = [result EXCEPT !["peer"] = "None"]
    /\ UNCHANGED <<chainVars, lockVars, poolVars, minerVars, last_index, peer_blocks, syncVars,
                   call>>

\* transaction lists of the blocks the API clients and the remote node build
ClientTxLists ==
    {txs \in TxLists :
        /\ Len(txs) <= 2
        /\ Len(txs) >= 1 => txs[1] = create_coinbase_transaction(1)
        /\ Len(txs) = 2 => txs[2].amount # BLOCK_SUBSIDY /\ txs[2].sender # txs[2].recipient}

ClientCandidates(last) ==
    {Block_new(last.index + 1, 0, last.hash, txs, now) : txs \in ClientTxLists, now \in Times}

\* the remote node appends a block to its own chain
RemoteAppend ==
    /\ Len(peer_blocks) < MaxChain
    /\ \E candidate \in ClientCandidates(peer_blocks[Len(peer_blocks)]) :
          LET r == add_block(peer_blocks, ReplayChain(peer_blocks), RemoteDifficulty, candidate)
          IN  /\ r.err = "Ok"
              /\ peer_blocks' = r.blocks
    /\ UNCHANGED <<chainVars, lockVars, poolVars, threadVars, minerVars, new_blocks,
                   last_index, syncVars, call>>

\* a client reads the tip through the API and posts a block built on it
ApiSubmit ==
    /\ pc["api"] = "idle"
    /\ can_lock(blocks_lock)
    /\ Len(blocks) < MaxChain
    /\ \E candidate \in ClientCandidates(blocks[Len(blocks)]) :
          block' = [block EXCEPT !["api"] = candidate]
    /\ pc' = [pc EXCEPT !["api"] = "add_block"]
    /\ UNCHANGED <<chainVars, lockVars, poolVars, result, minerVars, peerVars, call>>

\* the API answers the client that posted the block
ApiReturn ==
    /\ pc["api"] = "returned"
    /\ pc' = [pc EXCEPT !["api"] = "idle"]
    /\ block' = [block EXCEPT !["api"] = NoBlock]
    /\ result' = [result EXCEPT !["api"] = "None"]
    /\ UNCHANGED <<chainVars, lockVars, poolVars, minerVars, peerVars, call>>

\* transactions the API clients post
PoolTxs == {tx \in Transaction : tx.amount # BLOCK_SUBSIDY /\ tx.sender # tx.recipient}

\* TransactionPool::add_transaction as one critical section, called by the API
ApiAddTransaction ==
    /\ pc["api"] = "idle"
    /\ pool_adds < MaxPoolAdds
    /\ can_lock(pool_lock)
    /\ \E tx \in PoolTxs : pool' = Append(pool, tx)
    /\ pool_adds' = pool_adds + 1
    /\ UNCHANGED <<chainVars, lockVars, pool_lock, added, popped, last_pop, tx_arg, threadVars,
                   minerVars, peerVars, call>>

Init ==
    /\ \E d \in Difficulties : Blockchain_new(d)
    /\ TransactionPool_new
    /\ tx_arg = << >>
    /\ pc = [t \in Threads |->
               IF t = "miner" THEN "m_pop" ELSE IF t = "peer" THEN "p_tip" ELSE "idle"]
    /\ block = [t \in Threads |-> NoBlock]
    /\ result = [t \in Threads |-> "None"]
    /\ miner_address \in MinerAddresses
    /\ max_blocks \in BlockLimits
    /\ max_nonce = MaxNonce
    /\ target = create_target(difficulty)
    /\ transactions = <<>>
    /\ block_counter = 0
    /\ new_blocks = <<>>
    /\ Peer_new(<<"p1">>)
    /\ last_index = 0
    /\ peer_blocks = <<create_genesis_block>>
    /\ call = NoCall

Next ==
    \/ \E t \in Threads :
          AddBlockCheck(t) \/ AddBlockLockBalances(t) \/ AddBlockUpdate(t) \/ AddBlockPush(t)
    \/ MinerStop \/ MinerPop \/ MinerMine \/ MinerAfterAdd
    \/ PeerReadTip \/ PeerFetchFail("p_tip", "p_tip")
    \/ PeerFetch("p_tip", "p_tip", {peer_blocks}) \/ PeerAfterAdd("p_tip")
    \/ RemoteAppend
    \/ ApiSubmit \/ ApiReturn \/ ApiAddTransaction

Spec == Init /\ [][Next]_vars

(***************************************************************************)
(* SpecMiner: the Miner alone appends to the Chain, for every difficulty   *)
(* up to and beyond the hash width and every nonce bound, while the API    *)
(* feeds the pool.                                                         *)
(***************************************************************************)
AllDifficulties == 0 .. HashBits + 1
NonceLimits == 0 .. MaxNonce
MinerThreads == {"miner", "api"}

InitMiner ==
    /\ \E d \in AllDifficulties : Blockchain_new(d)
    /\ TransactionPool_new
    /\ tx_arg = << >>
    /\ pc = [t \in MinerThreads |-> IF t = "miner" THEN "m_pop" ELSE "idle"]
    /\ block = [t \in MinerThreads |-> NoBlock]
    /\ result = [t \in MinerThreads |-> "None"]
    /\ miner_address \in Addresses
    /\ max_blocks \in BlockLimits
    /\ max_nonce \in NonceLimits
    /\ target = create_target(difficulty)
    /\ transactions = <<>>
    /\ block_counter = 0
    /\ new_blocks = <<>>
    /\ Peer_new(<<>>)
    /\ last_index = 0
    /\ peer_blocks = <<create_genesis_block>>
    /\ call = NoCall

NextMiner ==
    \/ AddBlockCheck("miner") \/ AddBlockLockBalances("miner")
    \/ AddBlockUpdate("miner") \/ AddBlockPush("miner")
    \/ MinerStop \/ MinerPop \/ MinerMine \/ MinerAfterAdd
    \/ ApiAddTransaction

SpecMiner == InitMiner /\ [][NextMiner]_vars

\* the steps of the Miner's thread
MinerSteps ==
    \/ AddBlockCheck("miner") \/ AddBlockLockBalances("miner")
    \/ AddBlockUpdate("miner") \/ AddBlockPush("miner")
    \/ MinerStop \/ MinerPop \/ MinerMine \/ MinerAfterAdd

\* SpecMiner with a scheduler that does not starve the Miner's thread
SpecMinerFair == SpecMiner /\ WF_vars(MinerSteps)

(***************************************************************************)
(* SpecPeer: Peer::start, the whole PeerSync loop (pull from every         *)
(* configured peer, push to every configured peer, sleep), next to the API *)
(* as another writer of the chain.                                         *)
(***************************************************************************)
PeerLists == {<<>>, <<"p1">>, <<"p1", "p2">>}
PeerDifficulties == {0, 1}
PeerThreads == {"peer", "api"}

\* what a peer may answer to GET /blocks: its chain, or a faulty list (empty,
\* or shorter than the index of its last block implies)
Responses(chain) == {chain, <<>>, Tail(chain)}

\* a loop that gives up when at most one peer is configured
start_returns_few_peers(addresses) == Len(addresses) <= 1

\* Peer::start: with no peer configured the loop is not entered
start_returns(addresses) == addresses = <<>>

\* Peer::start up to the loop
PeerStart ==
    /\ pc["peer"] = "p_start"
    /\ IF start_returns(peer_addresses)
       THEN /\ pc' = [pc EXCEPT !["peer"] = "p_done"]
            /\ result' = [result EXCEPT !["peer"] = "Ok"]
            /\ UNCHANGED last_sent_block_index
       ELSE /\ can_lock(blocks_lock)
            /\ last_sent_block_index' = get_last_block(blocks).index
            /\ pc' = [pc EXCEPT !["peer"] = "p_next"]
            /\ UNCHANGED result
    /\ UNCHANGED <<chainVars, lockVars, poolVars, block, minerVars, new_blocks, last_index,
                   peer_blocks, peer_addresses, address_i, last_block_index, attempted,
                   pull_failed, call>>

\* try_receive_new_blocks: the loop over peer_addresses; after the last address
\* try_send_new_blocks is called
PeerNextAddress ==
    /\ pc["peer"] = "p_next"
    /\ IF address_i < Len(peer_addresses)
       THEN /\ address_i' = address_i + 1
            /\ pc' = [pc EXCEPT !["peer"] = "p_tip"]
       ELSE /\ address_i' = 0
            /\ pc' = [pc EXCEPT !["peer"] = "s_since"]
    /\ UNCHANGED <<chainVars, lockVars, poolVars, block, result, minerVars, new_blocks,
                   last_index, peer_blocks, peer_addresses, last_sent_block_index,
                   last_block_index, attempted, pull_failed, call>>

\* try_receive_new_blocks: the caught panic is logged and the loop goes on
PeerLogPullError ==
    /\ pc["peer"] = "p_caught"
    /\ pull_failed' = pull_failed \cup {peer_addresses[address_i]}
    /\ pc' = [pc EXCEPT !["peer"] = "p_next"]
    /\ UNCHANGED <<chainVars, lockVars, poolVars, block, result, minerVars, new_blocks,
                   last_index, peer_blocks, peer_addresses, address_i, last_sent_block_index,
                   last_block_index, attempted, call>>

\* Peer::get_new_blocks_since on the cloned chain: the blocks at positions
\* start_index + 1 ..= last (0-based); unwrap panics on a range outside the list
get_new_blocks_since(chain, start_index, last) ==
    IF start_index > last \/ last + 1 > Len(chain)
    THEN [panic |-> TRUE, blocks |-> <<>>]
    ELSE [panic |-> FALSE, blocks |-> SubSeq(chain, start_index + 2, last + 1)]

\* get_new_blocks_since: get_last_block_index
PeerReadSince ==
    /\ pc["peer"] = "s_since"
    /\ can_lock(blocks_lock)
    /\ last_block_index' = get_last_block(blocks).index
    /\ pc' = [pc EXCEPT !["peer"] = "s_blocks"]
    /\ UNCHANGED <<chainVars, lockVars, poolVars, block, result, minerVars, new_blocks,
                   last_index, peer_blocks, peer_addresses, address_i, last_sent_block_index,
                   attempted, pull_failed, call>>

\* get_new_blocks_since: get_all_blocks and the range; the panic of its unwrap
\* is outside every catch_unwind
PeerGetNewBlocksSince ==
    /\ pc["peer"] = "s_blocks"
    /\ can_lock(blocks_lock)
    /\ LET got == get_new_blocks_since(blocks, last_sent_block_index, last_block_index) IN
          /\ new_blocks' = got.blocks
          /\ address_i' = IF got.blocks = <<>> THEN 0 ELSE 1
          /\ pc' = [pc EXCEPT !["peer"] = IF got.panic THEN "p_panicked"
                                          ELSE IF got.blocks = <<>> THEN "s_update"
                                          ELSE "s_send"]
    /\ UNCHANGED <<chainVars, lockVars, poolVars, block, result, minerVars, last_index,
                   peer_blocks, peer_addresses, last_sent_block_index, last_block_index,
                   attempted, pull_failed, call>>

\* try_send_new_blocks: send the first block of new_blocks to the address at
\* address_i; a failed send returns from try_send_new_blocks
PeerSend ==
    /\ pc["peer"] = "s_send"
    /\ \E sent \in BOOLEAN :
          /\ attempted' = attempted \cup {<<peer_addresses[address_i], new_blocks[1].index, sent>>}
          /\ IF ~sent
             THEN /\ new_blocks' = <<>>
                  /\ address_i' = 0
                  /\ pc' = [pc EXCEPT !["peer"] = "s_update"]
             ELSE IF address_i < Len(peer_addresses)
             THEN /\ address_i' = address_i + 1
                  /\ UNCHANGED <<new_blocks, pc>>
             ELSE /\ new_blocks' = Tail(new_blocks)
                  /\ address_i' = IF Tail(new_blocks) = <<>> THEN 0 ELSE 1
                  /\ pc' = [pc EXCEPT !["peer"] =
                               IF Tail(new_blocks) = <<>> THEN "s_update" ELSE "s_send"]
    /\ UNCHANGED <<chainVars, lockVars, poolVars, block, result, minerVars, last_index,
                   peer_blocks, peer_addresses, last_sent_block_index, last_block_index,
                   pull_failed, call>>

\* Peer::start: last_sent_block_index = self.get_last_block_index()
PeerUpdateLastSent ==
    /\ pc["peer"] = "s_update"
    /\ can_lock(blocks_lock)
    /\ last_sent_block_index' = get_last_block(blocks).index
    /\ pc' = [pc EXCEPT !["peer"] = "s_sleep"]
    /\ UNCHANGED <<chainVars, lockVars, poolVars, block, result, minerVars, new_blocks,
                   last_index, peer_blocks, peer_addresses, address_i, last_block_index,
                   attempted, pull_failed, call>>

\* Peer::start: sleep_millis, then the next cycle
PeerSleep ==
    /\ pc["peer"] = "s_sleep"
    /\ pc' = [pc EXCEPT !["peer"] = "p_next"]
    /\ last_block_index' = 0
    /\ attempted' = {}
    /\ pull_failed' = {}
    /\ UNCHANGED <<chainVars, lockVars, poolVars, block, result, minerVars, new_blocks,
                   last_index, peer_blocks, peer_addresses, address_i, last_sent_block_index,
                   call>>

InitPeer ==
    /\ \E d \in PeerDifficulties : Blockchain_new(d)
    /\ TransactionPool_new
    /\ tx_arg = << >>
    /\ pc = [t \in PeerThreads |-> IF t = "peer" THEN "p_start" ELSE "idle"]
    /\ block = [t \in PeerThreads |-> NoBlock]
    /\ result = [t \in PeerThreads |-> "None"]
    /\ miner_address = ZeroAddress
    /\ max_blocks = 0
    /\ max_nonce = MaxNonce
    /\ target = create_target(difficulty)
    /\ transactions = <<>>
    /\ block_counter = 0
    /\ new_blocks = <<>>
    /\ last_index = 0
    /\ peer_blocks = <<create_genesis_block>>
    /\ \E addresses \in PeerLists : Peer_new(addresses)
    /\ call = NoCall

\* the steps of the PeerSync thread
PeerSteps ==
    \/ AddBlockCheck("peer") \/ AddBlockLockBalances("peer")
    \/ AddBlockUpdate("peer") \/ AddBlockPush("peer")
    \/ PeerStart \/ PeerNextAddress \/ PeerReadTip
    \/ PeerFetchFail("p_next", "p_caught")
    \/ PeerFetch("p_next", "p_caught", Responses(peer_blocks))
    \/ PeerLogPullError \/ PeerAfterAdd("p_next")
    \/ PeerReadSince \/ PeerGetNewBlocksSince \/ PeerSend \/ PeerUpdateLastSent \/ PeerSleep

NextPeer ==
    \/ PeerSteps
    \/ AddBlockCheck("api") \/ AddBlockLockBalances("api")
    \/ AddBlockUpdate("api") \/ AddBlockPush("api")
    \/ ApiSubmit \/ ApiReturn
    \/ RemoteAppend

SpecPeer == InitPeer /\ [][NextPeer]_vars

(***************************************************************************)
(* SpecPeerAlone: PeerSync as the only writer of the local chain, with     *)
(* peers that answer every request with their whole chain; the remote      *)
(* chain grows between the cycles only.                                    *)
(***************************************************************************)
RemoteAppendBetweenCycles ==
    /\ \/ pc["peer"] = "p_start"
       \/ pc["peer"] = "p_next" /\ address_i = 0
    /\ RemoteAppend

NextPeerAlone ==
    \/ AddBlockCheck("peer") \/ AddBlockLockBalances("peer")
    \/ AddBlockUpdate("peer") \/ AddBlockPush("peer")
    \/ PeerStart \/ PeerNextAddress \/ PeerReadTip
    \/ PeerFetch("p_next", "p_caught", {peer_blocks})
    \/ PeerAfterAdd("p_next")
    \/ PeerReadSince \/ PeerGetNewBlocksSince \/ PeerSend \/ PeerUpdateLastSent \/ PeerSleep
    \/ RemoteAppendBetweenCycles

SpecPeerAlone == InitPeer /\ [][NextPeerAlone]_vars

(***************************************************************************)
(* SpecPool: two API workers call add_transaction while the Miner calls    *)
(* pop; both are split at their lock operations.                           *)
(***************************************************************************)
Adders == {"api1", "api2"}
PoolThreads == Adders \cup {"miner"}

NoTx == [sender |-> ZeroAddress, recipient |-> ZeroAddress, amount |-> 0]

\* an API worker receives a transaction to add
AddTransactionCall(t) ==
    /\ pc[t] = "idle"
    /\ pool_adds < MaxPoolAdds
    /\ \E tx \in PoolTxs : tx_arg' = [tx_arg EXCEPT ![t] = tx]
    /\ pool_adds' = pool_adds + 1
    /\ pc' = [pc EXCEPT ![t] = "at_lock"]
    /\ UNCHANGED <<chainVars, lockVars, pool, pool_lock, added, popped, last_pop, block,
                   result, minerVars, peerVars, call>>

\* add_transaction: lock the buffer
AddTransactionLock(t) ==
    /\ pc[t] = "at_lock"
    /\ can_lock(pool_lock)
    /\ pool_lock' = t
    /\ pc' = [pc EXCEPT ![t] = "at_push"]
    /\ UNCHANGED <<chainVars, lockVars, pool, pool_adds, added, popped, last_pop, tx_arg,
                   block, result, minerVars, peerVars, call>>

\* add_transaction: push and unlock
AddTransactionPush(t) ==
    /\ pc[t] = "at_push"
    /\ pool' = Append(pool, tx_arg[t])
    /\ added' = Append(added, tx_arg[t])
    /\ pool_lock' = NoThread
    /\ tx_arg' = [tx_arg EXCEPT ![t] = NoTx]
    /\ pc' = [pc EXCEPT ![t] = "idle"]
    /\ UNCHANGED <<chainVars, lockVars, pool_adds, popped, last_pop, block, result,
                   minerVars, peerVars, call>>

\* pop: lock the buffer
PopLock ==
    /\ pc["miner"] = "pop"
    /\ can_lock(pool_lock)
    /\ pool_lock' = "miner"
    /\ pc' = [pc EXCEPT !["miner"] = "pop_clone"]
    /\ UNCHANGED <<chainVars, lockVars, pool, pool_adds, added, popped, last_pop, tx_arg,
                   block, result, minerVars, peerVars, call>>

\* pop: clone the buffer
PopClone ==
    /\ pc["miner"] = "pop_clone"
    /\ transactions' = pop(pool)
    /\ pc' = [pc EXCEPT !["miner"] = "pop_clear"]
    /\ UNCHANGED <<chainVars, lockVars, poolVars, block, result, miner_address, max_blocks,
                   max_nonce, target,
                   block_counter, peerVars, call>>

\* pop: clear the buffer, unlock and return the clone
PopClear ==
    /\ pc["miner"] = "pop_clear"
    /\ pool' = clear(pool)
    /\ pool_lock' = NoThread
    /\ last_pop' = transactions
    /\ popped' = popped \o transactions
    /\ transactions' = <<>>
    /\ pc' = [pc EXCEPT !["miner"] = "pop"]
    /\ UNCHANGED <<chainVars, lockVars, pool_adds, added, tx_arg, block, result,
                   miner_address, max_blocks, max_nonce, target, block_counter, peerVars, call>>

InitPool ==
    /\ \E d \in Difficulties : Blockchain_new(d)
    /\ TransactionPool_new
    /\ tx_arg = [t \in Adders |-> NoTx]
    /\ pc = [t \in PoolThreads |-> IF t = "miner" THEN "pop" ELSE "idle"]
    /\ block = << >>
    /\ result = << >>
    /\ miner_address = ZeroAddress
    /\ max_blocks = 0
    /\ max_nonce = MaxNonce
    /\ target = create_target(difficulty)
    /\ transactions = <<>>
    /\ block_counter = 0
    /\ new_blocks = <<>>
    /\ Peer_new(<<>>)
    /\ last_index = 0
    /\ peer_blocks = <<>>
    /\ call = NoCall

NextPool ==
    \/ \E t \in Adders :
          AddTransactionCall(t) \/ AddTransactionLock(t) \/ AddTransactionPush(t)
    \/ PopLock \/ PopClone \/ PopClear

SpecPool == InitPool /\ [][NextPool]_vars

(***************************************************************************)
(* SpecLocks: the Miner, PeerSync's pull and the API with every mutex of   *)
(* the Chain and of the TransactionPool taken and released in steps of     *)
(* their own.                                                              *)
(***************************************************************************)
LockDifficulties == {0, 1}

\* a guard of the pool that outlives the call of pop
pop_guard_kept(t) == t

\* TransactionPool::pop: the guard `transactions` is dropped when pop returns
pop_guard(t) == NoThread

\* Miner::start, pop: lock the pool
MinerPopLock ==
    /\ pc["miner"] = "m_pop"
    /\ ~must_stop_mining(max_blocks, block_counter)
    /\ can_lock(pool_lock)
    /\ pool_lock' = "miner"
    /\ pc' = [pc EXCEPT !["miner"] = "m_popping"]
    /\ UNCHANGED <<chainVars, lockVars, pool, pool_adds, added, popped, last_pop, tx_arg,
                   block, result, minerVars, peerVars, call>>

\* Miner::start, pop: clone and clear the pool and return; sleep and retry
\* when the clone is empty
MinerPopReturn ==
    /\ pc["miner"] = "m_popping"
    /\ transactions' = pop(pool)
    /\ pool' = clear(pool)
    /\ pool_lock' = pop_guard("miner")
    /\ pc' = [pc EXCEPT !["miner"] = after_pop(pop(pool))]
    /\ UNCHANGED <<chainVars, lockVars, pool_adds, added, popped, last_pop, tx_arg,
                   block, result, miner_address, max_blocks, max_nonce, target, block_counter,
                   peerVars, call>>

InitLocks ==
    /\ \E d \in LockDifficulties : Blockchain_new(d)
    /\ TransactionPool_new
    /\ tx_arg = [t \in {"api"} |-> NoTx]
    /\ pc = [t \in Threads |->
               IF t = "miner" THEN "m_pop" ELSE IF t = "peer" THEN "p_tip" ELSE "idle"]
    /\ block = [t \in Threads |-> NoBlock]
    /\ result = [t \in Threads |-> "None"]
    /\ miner_address = ZeroAddress
    /\ max_blocks = MaxChain - 1      \* MAX_BLOCKS the Miner can reach
    /\ max_nonce = MaxNonce
    /\ target = create_target(difficulty)
    /\ transactions = <<>>
    /\ block_counter = 0
    /\ new_blocks = <<>>
    /\ Peer_new(<<"p1">>)
    /\ last_index = 0
    /\ peer_blocks = <<create_genesis_block>>
    /\ call = NoCall

\* the steps of each thread
LockMinerSteps ==
    \/ AddBlockCheck("miner") \/ AddBlockLockBalances("miner")
    \/ AddBlockUpdate("miner") \/ AddBlockPush("miner")
    \/ MinerStop \/ MinerPopLock \/ MinerPopReturn \/ MinerMine \/ MinerAfterAdd

LockPeerSteps ==
    \/ AddBlockCheck("peer") \/ AddBlockLockBalances("peer")
    \/ AddBlockUpdate("peer") \/ AddBlockPush("peer")
    \/ PeerReadTip \/ PeerFetchFail("p_tip", "p_tip")
    \/ PeerFetch("p_tip", "p_tip", {peer_blocks}) \/ PeerAfterAdd("p_tip")

LockApiSteps ==
    \/ AddBlockCheck("api") \/ AddBlockLockBalances("api")
    \/ AddBlockUpdate("api") \/ AddBlockPush("api")
    \/ ApiSubmit \/ ApiReturn
    \/ AddTransactionCall("api") \/ AddTransactionLock("api") \/ AddTransactionPush("api")

LockSteps(t) ==
    IF t = "miner" THEN LockMinerSteps ELSE IF t = "peer" THEN LockPeerSteps ELSE LockApiSteps

NextLocks == LockMinerSteps \/ LockPeerSteps \/ LockApiSteps \/ RemoteAppend

SpecLocks == InitLocks /\ [][NextLocks]_vars

(***************************************************************************)
(* Ledger arithmetic used to state the properties: what a list of          *)
(* transactions does to an address, written as sums over the list.         *)
(***************************************************************************)
Balance(balances, a) == IF a \in DOMAIN balances THEN balances[a] ELSE 0

\* net amount the transfers at positions 2 .. k of txs move to address a
RECURSIVE NetTransfers(_, _, _)
NetTransfers(txs, k, a) ==
    IF k < 2 THEN 0
    ELSE NetTransfers(txs, k - 1, a)
           + (IF txs[k].recipient = a THEN txs[k].amount ELSE 0)
           - (IF txs[k].sender = a THEN txs[k].amount ELSE 0)

\* the balance of a after the coinbase and the transfers 2 .. k of txs
ExpectedBalance(before, txs, k, a) ==
    Balance(before, a)
      + (IF txs[1].recipient = a THEN txs[1].amount ELSE 0)
      + NetTransfers(txs, k, a)

\* a has an entry after the coinbase and the transfers 2 .. k of txs
HasEntry(before, txs, k, a) ==
    \/ a \in DOMAIN before
    \/ \E j \in 1 .. k : txs[j].recipient = a

\* the transfer at position k cannot be applied after positions 1 .. k-1 were
TransferFails(before, txs, k) ==
    \/ ~HasEntry(before, txs, k - 1, txs[k].sender)
    \/ ExpectedBalance(before, txs, k - 1, txs[k].sender) < txs[k].amount

FailingTransfers(before, txs) ==
    {k \in 2 .. Len(txs) : TransferFails(before, txs, k)}

Min(S) == CHOOSE x \in S : \A y \in S : x <= y

(***************************************************************************)
(* Properties of add_block for a single caller (SpecSeq).                  *)
(***************************************************************************)
CallTxs == call.block.transactions

\* the rules of add_block the candidate of `call` breaks, judged against the
\* tip and the snapshot the call found
Breaks(rule) ==
    CASE rule = "InvalidIndex" -> call.block.index # call.tip.index + 1
      [] rule = "InvalidPreviousHash" -> call.block.previous_hash # call.tip.hash
      [] rule = "InvalidHash" -> call.block.hash # calculate_hash(call.block)
      [] rule = "InvalidDifficulty" -> leading_zeros(call.block.hash) < difficulty
      [] rule = "CoinbaseTransactionNotFound" -> CallTxs = <<>>
      [] rule = "InvalidCoinbaseAmount" ->
            CallTxs # <<>> /\ CallTxs[1].amount # BLOCK_SUBSIDY

RuleOrder == <<"InvalidIndex", "InvalidPreviousHash", "InvalidHash",
               "InvalidDifficulty", "CoinbaseTransactionNotFound",
               "InvalidCoinbaseAmount">>

BrokenRules == {i \in 1 .. Len(RuleOrder) : Breaks(RuleOrder[i])}

TransferErrors == {"SenderAccountDoesNotExist", "InsufficientFunds"}

\* C2: whenever add_block returns an error, the block list and the balance
\* snapshot are what they were before the call.
C2_ErrorLeavesChainUntouched ==
    [][(call = NoCall /\ call' # NoCall /\ call'.err # "Ok")
         => (blocks' = blocks /\ account_balances' = account_balances)]_vars

\* a call failed on its third transaction after the coinbase and a transfer had
\* changed the scratch balances, and the snapshot is the one before the call
C2_Witness ==
    /\ call # NoCall
    /\ call.err = "InsufficientFunds"
    /\ Len(CallTxs) = 3
    /\ FailingTransfers(call.before, CallTxs) = {3}
    /\ calculate_new_account_balance(call.before, CallTxs).balances # call.before
    /\ account_balances = call.before

\* C3: add_block reports the first broken rule in the order InvalidIndex,
\* InvalidPreviousHash, InvalidHash, InvalidDifficulty,
\* CoinbaseTransactionNotFound, InvalidCoinbaseAmount; a transfer error only when
\* none of these is broken and some transfer fails; and it accepts the candidate
\* exactly when nothing is broken.
C3_FirstFailingCheckWins ==
    call # NoCall =>
        IF BrokenRules # {}
        THEN call.err = RuleOrder[Min(BrokenRules)]
        ELSE IF FailingTransfers(call.before, CallTxs) # {}
        THEN call.err \in TransferErrors
        ELSE call.err = "Ok" /\ blocks[Len(blocks)] = call.block

\* a candidate that breaks the index, hash and coinbase rules at once was
\* rejected with InvalidIndex
C3_Witness ==
    /\ call # NoCall
    /\ call.err = "InvalidIndex"
    /\ {3, 5} \subseteq BrokenRules

\* the candidate of `call` passed the header checks and has a valid coinbase
ReachesTransfers == call # NoCall /\ BrokenRules = {} /\ Len(CallTxs) >= 2

\* C10: in the replay of a block, the first transfer that cannot be applied is
\* rejected with SenderAccountDoesNotExist when its sender has no entry and with
\* InsufficientFunds when the sender's balance, counting the credits made earlier
\* in the block, is below the amount; when every transfer can be applied each
\* one debits its sender and credits its recipient by exactly its amount.
C10_TransferRules ==
    ReachesTransfers =>
        LET failing == FailingTransfers(call.before, CallTxs) IN
        IF failing = {}
        THEN /\ call.err = "Ok"
             /\ \A a \in Addresses :
                   /\ Balance(account_balances, a)
                        = ExpectedBalance(call.before, CallTxs, Len(CallTxs), a)
                   /\ a \in DOMAIN account_balances
                        <=> HasEntry(call.before, CallTxs, Len(CallTxs), a)
        ELSE LET k == Min(failing) IN
             IF ~HasEntry(call.before, CallTxs, k - 1, CallTxs[k].sender)
             THEN call.err = "SenderAccountDoesNotExist"
             ELSE call.err = "InsufficientFunds"

\* an accepted block whose transfer is paid out of the coinbase credited earlier
\* in the same block
C10_Witness ==
    /\ ReachesTransfers
    /\ call.err = "Ok"
    /\ CallTxs[2].sender \notin DOMAIN call.before
    /\ CallTxs[2].sender = CallTxs[1].recipient
    /\ CallTxs[2].recipient # CallTxs[2].sender

\* C11: a block whose first transaction carries the block subsidy passes the
\* coinbase step whatever the sender of that transaction is; the sender is not
\* debited and gets no entry, and the recipient is credited the block subsidy.
C11_CoinbaseSenderIgnored ==
    (call # NoCall /\ BrokenRules = {}) =>
        LET coinbase == CallTxs[1] IN
        /\ call.err \notin {"CoinbaseTransactionNotFound", "InvalidCoinbaseAmount"}
        /\ Len(CallTxs) = 1 =>
              /\ call.err = "Ok"
              /\ DOMAIN account_balances = (DOMAIN call.before) \cup {coinbase.recipient}
        /\ call.err = "Ok" =>
              \A a \in Addresses :
                  Balance(account_balances, a) - Balance(call.before, a)
                      - NetTransfers(CallTxs, Len(CallTxs), a)
                    = IF a = coinbase.recipient THEN BLOCK_SUBSIDY ELSE 0

\* a block was accepted whose coinbase names a non-zero sender that has no entry
\* in the balance snapshot
C11_Witness ==
    /\ call # NoCall
    /\ call.err = "Ok"
    /\ Len(CallTxs) = 1
    /\ CallTxs[1].sender # ZeroAddress
    /\ CallTxs[1].sender # CallTxs[1].recipient
    /\ CallTxs[1].sender \notin DOMAIN account_balances

\* C12: every block of the chain, the genesis block included, stores the hash
\* recomputed from its other fields, and a candidate whose stored hash differs
\* from the recomputed one is rejected and not appended.
C12_StoredHashIsRecomputed ==
    /\ \A i \in 1 .. Len(blocks) : blocks[i].hash = calculate_hash(blocks[i])
    /\ (call # NoCall /\ call.block.hash # calculate_hash(call.block)) =>
          /\ call.err # "Ok"
          /\ get_last_block(blocks) = call.tip

\* a candidate that only breaks the hash rule was rejected with InvalidHash by a
\* chain that already holds an appended block
C12_Witness ==
    /\ call # NoCall
    /\ Len(blocks) >= 2
    /\ call.err = "InvalidHash"
    /\ BrokenRules = {3}
    /\ FailingTransfers(call.before, CallTxs) = {}

\* C13: a chain to which nothing was appended holds exactly the genesis block
\* (index 0, nonce 0, zero previous_hash, timestamp 0, no transactions), which
\* get_last_block returns, and an empty balance map, whatever the difficulty.
C13_NewChainIsGenesis ==
    Len(blocks) = 1 =>
        /\ get_last_block(blocks) = blocks[1]
        /\ blocks[1].index = 0
        /\ blocks[1].nonce = 0
        /\ blocks[1].previous_hash = ZeroHash
        /\ blocks[1].timestamp = 0
        /\ blocks[1].transactions = <<>>
        /\ account_balances = EmptyBalances

\* a chain holds only a genesis block whose hash does not meet the difficulty
\* for which it rejected a candidate
C13_Witness ==
    /\ Len(blocks) = 1
    /\ leading_zeros(blocks[1].hash) < difficulty
    /\ call # NoCall
    /\ call.err = "InvalidDifficulty"

\* C16: a chain whose difficulty is above the hash width accepts the difficulty
\* of a candidate whose hash is all zero bits and rejects every other hash with
\* InvalidDifficulty.
C16_BeyondWidthActsAsWidth ==
    (call # NoCall /\ difficulty > HashBits /\ BrokenRules \cap {1, 2, 3} = {}) =>
        IF call.block.hash = ZeroHash
        THEN call.err # "InvalidDifficulty"
        ELSE call.err = "InvalidDifficulty"

(***************************************************************************)
(* Properties of the Chain under the three threads (Spec).                 *)
(***************************************************************************)
InCriticalSection(t) == pc[t] \in {"ab_balances", "ab_update", "ab_push"}

\* C1: every block after the genesis block has the index of its position, the
\* hash of its predecessor as previous_hash, and a hash with at least
\* `difficulty` leading zero bits.
C1_ChainLinked ==
    \A i \in 2 .. Len(blocks) :
        /\ blocks[i].index = i - 1
        /\ blocks[i].previous_hash = blocks[i - 1].hash
        /\ leading_zeros(blocks[i].hash) >= difficulty

\* a chain at a positive difficulty whose second block was mined by the Miner
\* and whose third block came from a client or the peer
C1_Witness ==
    /\ difficulty >= 1
    /\ Len(blocks) = 3
    /\ blocks[2].transactions[1] = create_coinbase_transaction(miner_address)
    /\ blocks[3].transactions[1] # create_coinbase_transaction(miner_address)

\* what the blocks 1 .. n of `chain` (the genesis block is block 0) pay to a
RECURSIVE ChainNet(_, _, _)
ChainNet(chain, n, a) ==
    IF n < 2 THEN 0
    ELSE ChainNet(chain, n - 1, a)
           + ExpectedBalance(EmptyBalances, chain[n].transactions,
                             Len(chain[n].transactions), a)

\* C4: when no thread is inside add_block's critical section, the balance of
\* every address is what the coinbases and transfers of the blocks in the chain
\* pay it, and the addresses with an entry are those some transaction paid.
C4_BalancesAreReplay ==
    (\A t \in Threads : ~InCriticalSection(t)) =>
        \A a \in Addresses :
            /\ Balance(account_balances, a) = ChainNet(blocks, Len(blocks), a)
            /\ a \in DOMAIN account_balances
                 <=> \E i \in 2 .. Len(blocks) :
                        \E j \in 1 .. Len(blocks[i].transactions) :
                            blocks[i].transactions[j].recipient = a

\* two blocks with transfers are in the chain and no add_block is running
C4_Witness ==
    /\ \A t \in Threads : ~InCriticalSection(t)
    /\ Len(blocks) = 3
    /\ Len(blocks[2].transactions) >= 2
    /\ Len(blocks[3].transactions) >= 2
    /\ \E a \in Addresses : Balance(account_balances, a) \notin {0, BLOCK_SUBSIDY}

\* C5: the snapshot replacement and the push of one add_block happen while the
\* caller holds the mutex of the block list, which the readers take too: whenever
\* that mutex is free the snapshot is the replay of the block list.
C5_PushAndBalancesUnderOneLock ==
    /\ \A t \in Threads : InCriticalSection(t) => blocks_lock = t
    /\ blocks_lock = NoThread => account_balances = ReplayChain(blocks)

\* the Miner has replaced the snapshot and not yet pushed its block, while the
\* PeerSync thread waits to read the tip
C5_Witness ==
    /\ pc["miner"] = "ab_push"
    /\ blocks_lock = "miner"
    /\ account_balances # ReplayChain(blocks)
    /\ pc["peer"] = "p_tip"

\* `candidate` would be accepted by a chain that ends at the block it is built on
OtherwiseValid(candidate) ==
    /\ candidate.index \in 1 .. Len(blocks)
    /\ LET base == SubSeq(blocks, 1, candidate.index)
       IN  add_block(base, ReplayChain(base), difficulty, candidate).err = "Ok"

Racing(t, u) ==
    /\ t # u
    /\ pc[t] = "returned" /\ pc[u] = "returned"
    /\ block[t].index = block[u].index
    /\ block[t].previous_hash = block[u].previous_hash
    /\ OtherwiseValid(block[t]) /\ OtherwiseValid(block[u])

\* C6: of two otherwise valid candidates built on the same tip at most one is
\* accepted, the rejected one is rejected with InvalidIndex or
\* InvalidPreviousHash, and no two blocks of the chain have the same index.
C6_OneWinnerPerTip ==
    /\ \A i, j \in 1 .. Len(blocks) : i # j => blocks[i].index # blocks[j].index
    /\ \A t, u \in Threads :
          Racing(t, u) =>
             /\ ~(result[t] = "Ok" /\ result[u] = "Ok")
             /\ result[t] # "Ok" => result[t] \in {"InvalidIndex", "InvalidPreviousHash"}
             /\ (result[t] # "Ok" /\ result[u] # "Ok") =>
                    /\ Len(blocks) > block[t].index
                    /\ blocks[block[t].index + 1].index = block[t].index

\* the Miner and a client raced on the same tip: one was accepted, the other
\* rejected
C6_Witness ==
    /\ Racing("miner", "api")
    /\ result["api"] = "Ok"
    /\ result["miner"] = "InvalidIndex"

\* C7: the block list only grows at its end: each step leaves the blocks it held
\* in place and unchanged.
C7_AppendOnly ==
    [][/\ Len(blocks') >= Len(blocks)
       /\ SubSeq(blocks', 1, Len(blocks)) = blocks]_vars

\* the peer serves a longer chain that forks from the local one at block 1, and
\* the block PeerSync took from it was rejected
C7_Witness ==
    /\ pc["peer"] = "returned"
    /\ result["peer"] = "InvalidPreviousHash"
    /\ Len(blocks) >= 2
    /\ Len(peer_blocks) > Len(blocks)
    /\ peer_blocks[2] # blocks[2]
    /\ block["peer"] = peer_blocks[3]

(***************************************************************************)
(* Properties of the TransactionPool (SpecPool).                           *)
(***************************************************************************)
RECURSIVE Count(_, _)
Count(seq, x) ==
    IF seq = <<>> THEN 0
    ELSE Count(Tail(seq), x) + (IF Head(seq) = x THEN 1 ELSE 0)

\* C8: each transaction pushed to the pool is, as many times as it was pushed,
\* either still in the pool or in the result of exactly one pop.
C8_EveryAddPoppedOnce ==
    \A tx \in PoolTxs : Count(added, tx) = Count(popped, tx) + Count(pool, tx)

\* a pop holds the lock between its clone and its clear, with a transaction
\* of one API worker in the clone, while the other worker waits to push
C8_Witness ==
    /\ pc["miner"] = "pop_clear"
    /\ transactions # <<>>
    /\ pool_lock = "miner"
    /\ \E t \in Adders : pc[t] = "at_lock"

\* C9: a pop returns the transactions pushed since the previous pop returned,
\* in push order, and leaves the pool empty.
C9_PopReturnsAllSinceLastPop ==
    [][(pc["miner"] = "pop_clear" /\ pc'["miner"] = "pop")
         => /\ last_pop' = SubSeq(added, Len(popped) + 1, Len(added))
            /\ popped' = added
            /\ pool' = <<>>]_vars

\* a pop returned the same transaction twice, in the order of the two pushes
C9_Witness ==
    /\ pc["miner"] = "pop"
    /\ Len(last_pop) = 2
    /\ last_pop[1] = last_pop[2]
    /\ pool = <<>>

(***************************************************************************)
(* Properties of the Miner (SpecMiner, Spec).                              *)
(***************************************************************************)
\* the Miner is inside the add_block call it made for the block it mined
MinerSubmitting ==
    pc["miner"] \in {"add_block", "ab_balances", "ab_update", "ab_push", "returned"}

\* C14: every hash below the Miner's target has at least `difficulty` leading
\* zero bits, so the block the Miner mined is below the target, meets the
\* difficulty and is never rejected with InvalidDifficulty.
C14_MinedHashMeetsDifficulty ==
    /\ \A h \in 0 .. HashSpace - 1 : h < target => leading_zeros(h) >= difficulty
    /\ MinerSubmitting =>
          /\ block["miner"].hash < target
          /\ leading_zeros(block["miner"].hash) >= difficulty
    /\ result["miner"] # "InvalidDifficulty"

\* a block the Miner mined at a difficulty of two bits or more passed the
\* header checks of add_block
C14_Witness ==
    /\ difficulty >= 2
    /\ pc["miner"] = "ab_balances"
    /\ block["miner"].hash < target

\* C15: the target has exactly `difficulty` leading zero bits when the
\* difficulty is below the hash width, and is zero, with as many leading zero
\* bits as the hash is wide, from the hash width on.
C15_TargetLeadingZeros ==
    IF difficulty < HashBits
    THEN leading_zeros(target) = difficulty
    ELSE target = 0 /\ leading_zeros(target) = HashBits

\* a Miner whose difficulty is above the hash width searched with the target
\* zero and found no block
C15_Witness ==
    /\ difficulty > HashBits
    /\ target = 0
    /\ pc["miner"] = "m_failed"
    /\ result["miner"] = "BlockNotMined"

\* the nonces below max_nonce whose block on `tip` is below the target
PassingNonces(tip, txs, clock) ==
    {n \in 0 .. max_nonce - 1 :
        Block_new(tip.index + 1, n, tip.hash, txs, clock[n]).hash < target}

\* C17: the Miner submits a block exactly when some nonce below max_nonce gives
\* a hash below the target, and then the block of the least such nonce, built
\* on the tip it read; otherwise it reports that no block was mined.
C17_LeastPassingNonce ==
    LET tip == get_last_block(blocks)
        txs == <<create_coinbase_transaction(miner_address)>> \o transactions
        clocks == [0 .. MaxNonce - 1 -> Times]
    IN  /\ pc["miner"] = "add_block" =>
              /\ block["miner"].index = tip.index + 1
              /\ block["miner"].previous_hash = tip.hash
              /\ \E clock \in clocks :
                    LET passing == PassingNonces(tip, txs, clock) IN
                    /\ passing # {}
                    /\ block["miner"] = Block_new(tip.index + 1, Min(passing), tip.hash, txs,
                                                   clock[Min(passing)])
        /\ (pc["miner"] = "m_failed" /\ result["miner"] = "BlockNotMined") =>
              \E clock \in clocks : PassingNonces(tip, txs, clock) = {}

\* the Miner submits the block of nonce 1: nonce 0 did not pass
C17_Witness ==
    /\ pc["miner"] = "add_block"
    /\ block["miner"].nonce = 1

\* C18: a pop of the Miner takes the whole pool, and the block the Miner then
\* submits carries the reward transaction first and after it the popped
\* transactions in the order of the pop.
C18_RewardThenPopped ==
    [][/\ (pc["miner"] = "m_pop" /\ pc'["miner"] = "m_mine") =>
             (transactions' = pool /\ pool' = <<>>)
       /\ (pc["miner"] = "m_mine" /\ pc'["miner"] = "add_block") =>
             /\ transactions' = transactions
             /\ block'["miner"].transactions =
                   <<[sender |-> ZeroAddress, recipient |-> miner_address,
                      amount |-> BLOCK_SUBSIDY]>> \o transactions
       /\ (MinerSubmitting /\ MinerSubmitting') =>
             (block'["miner"] = block["miner"] /\ transactions' = transactions)]_vars

\* the Miner submits a block with two different popped transactions
C18_Witness ==
    /\ pc["miner"] = "add_block"
    /\ Len(transactions) = 2
    /\ transactions[1] # transactions[2]
    /\ Len(block["miner"].transactions) = 3

\* blocks of the chain whose coinbase pays the Miner's address; the API clients
\* and the remote node pay another address
MinedBlocks == {i \in 2 .. Len(blocks) : blocks[i].transactions[1].recipient = miner_address}

\* C19: with a block limit above zero the Miner never appends more blocks than
\* the limit and, once it has appended that many, its next step is to stop,
\* whatever the other threads appended; with limit zero it never stops.
C19_StopsAtBlockLimit ==
    [][/\ max_blocks > 0 => Cardinality(MinedBlocks') <= max_blocks
       /\ (max_blocks > 0 /\ Cardinality(MinedBlocks) = max_blocks
             /\ pc'["miner"] # pc["miner"]) =>
             pc'["miner"] \in {"returned", "m_pop", "m_stopped"}
       /\ (pc["miner"] = "m_pop" /\ max_blocks > 0 /\ Cardinality(MinedBlocks) = max_blocks
             /\ pc'["miner"] # pc["miner"]) =>
             pc'["miner"] = "m_stopped"
       /\ pc'["miner"] = "m_stopped" =>
             (max_blocks > 0 /\ Cardinality(MinedBlocks') = max_blocks)]_vars

\* the Miner stopped at limit 1 in a chain that holds its block and a block of
\* another thread
C19_Witness ==
    /\ pc["miner"] = "m_stopped"
    /\ max_blocks = 1
    /\ Len(blocks) = 3
    /\ Cardinality(MinedBlocks) = 1

\* C20: when add_block rejects the Miner's block the Miner's next step ends its
\* loop with that error, and a Miner whose loop ended takes no further step: it
\* submits nothing, reads no tip and pops nothing.
C20_RejectionEndsMiner ==
    [][/\ (pc["miner"] = "returned" /\ result["miner"] # "Ok"
             /\ pc'["miner"] # pc["miner"]) =>
             (pc'["miner"] = "m_failed" /\ result'["miner"] = result["miner"])
       /\ pc["miner"] = "m_failed" =>
             /\ pc'["miner"] = "m_failed"
             /\ block'["miner"] = block["miner"]
             /\ result'["miner"] = result["miner"]
             /\ transactions' = transactions
             /\ block_counter' = block_counter
             /\ Len(pool') >= Len(pool)]_vars

\* the Miner's loop ended with InvalidIndex: another thread appended to the tip
\* the Miner had read
C20_Witness ==
    /\ pc["miner"] = "m_failed"
    /\ result["miner"] = "InvalidIndex"
    /\ pool # <<>>

\* C21: when no nonce below max_nonce passes, the Miner's loop ends with
\* BlockNotMined carrying the index of the tip it read plus one, without
\* changing the chain, and the Miner takes no further step.
C21_ExhaustionEndsMiner ==
    [][/\ (pc["miner"] = "m_mine" /\ pc'["miner"] = "m_failed") =>
             /\ result'["miner"] = "BlockNotMined"
             /\ block'["miner"].index = get_last_block(blocks).index + 1
             /\ blocks' = blocks
             /\ \E clock \in [0 .. MaxNonce - 1 -> Times] :
                   PassingNonces(get_last_block(blocks),
                                 <<create_coinbase_transaction(miner_address)>> \o transactions,
                                 clock) = {}
       /\ (pc["miner"] = "m_failed" /\ result["miner"] = "BlockNotMined") =>
             /\ pc'["miner"] = "m_failed"
             /\ result'["miner"] = "BlockNotMined"
             /\ block'["miner"] = block["miner"]
             /\ transactions' = transactions
             /\ Len(pool') >= Len(pool)
             /\ MinedBlocks' = MinedBlocks]_vars

\* the Miner ended with BlockNotMined for the index after the tip it read, and
\* another thread has appended a block at that index since
C21_Witness ==
    /\ pc["miner"] = "m_failed"
    /\ result["miner"] = "BlockNotMined"
    /\ block["miner"].index >= 1
    /\ Len(blocks) > block["miner"].index

\* C22: once the Miner's loop has ended with an error, the PeerSync and API
\* threads take no further step and the chain does not change.
C22_MinerFailureStopsProcess ==
    [][pc["miner"] = "m_failed" =>
          /\ pc'["peer"] = pc["peer"]
          /\ pc'["api"] = pc["api"]
          /\ blocks' = blocks]_vars

(***************************************************************************)
(* Properties of PeerSync's pull (Spec).                                   *)
(***************************************************************************)
\* the block of `chain` that carries index k
BlockAt(chain, k) == CHOOSE b \in {chain[i] : i \in 1 .. Len(chain)} : b.index = k

PeerInAddBlock == pc["peer"] \in {"add_block", "ab_balances", "ab_update", "ab_push", "returned"}

\* C24: with the peer's last index P above the local tip index L read at the
\* start of the pull, the batch is exactly the peer's blocks of indices
\* L+1 .. P in ascending order and they are submitted to add_block one at a
\* time in that order; with P <= L nothing is submitted and that pull leaves
\* the chain as it is.
C24_PullSubmitsMissingBlocksInOrder ==
    [][LET P == peer_blocks[Len(peer_blocks)].index
           L == last_index
       IN  /\ (pc["peer"] = "p_fetch" /\ pc'["peer"] # "p_fetch" /\ P <= L) =>
                  /\ pc'["peer"] = "p_tip"
                  /\ new_blocks' = <<>> /\ block'["peer"] = NoBlock
                  /\ blocks' = blocks /\ account_balances' = account_balances
           /\ (pc["peer"] = "p_fetch" /\ pc'["peer"] = "add_block") =>
                  /\ P > L
                  /\ Len(new_blocks') = P - L
                  /\ \A k \in 1 .. P - L : new_blocks'[k] = BlockAt(peer_blocks, L + k)
                  /\ block'["peer"] = BlockAt(peer_blocks, L + 1)
                  /\ blocks' = blocks
           /\ (pc["peer"] = "returned" /\ pc'["peer"] = "add_block") =>
                  /\ new_blocks' = Tail(new_blocks)
                  /\ block'["peer"] = new_blocks'[1]
                  /\ block'["peer"].index = block["peer"].index + 1
           /\ (pc["peer"] = "returned" /\ pc'["peer"] = "p_tip" /\ result["peer"] = "Ok") =>
                  Len(new_blocks) = 1
           /\ (PeerInAddBlock /\ pc'["peer"] # "p_tip") =>
                  /\ block'["peer"] = new_blocks'[1]
                  /\ (pc["peer"] # "returned" => new_blocks' = new_blocks)]_vars

\* the first of two missing blocks is being submitted
C24_Witness ==
    /\ pc["peer"] = "add_block"
    /\ Len(new_blocks) = 2
    /\ block["peer"] = new_blocks[1]
    /\ new_blocks[1].index = get_last_block(blocks).index + 1
    /\ new_blocks[2] = get_last_block(peer_blocks)

\* C25: when add_block rejects a block of the pulled batch, that call leaves
\* chain and balances as they were, PeerSync's next step ends the peer's batch
\* without submitting a later block, and what the batch appended before stays.
C25_RejectionEndsBatch ==
    [][/\ (pc["peer"] = "returned" /\ result["peer"] # "Ok" /\ pc'["peer"] # "returned") =>
             /\ pc'["peer"] = "p_tip"
             /\ new_blocks' = <<>>
             /\ block'["peer"] = NoBlock
             /\ blocks' = blocks
             /\ account_balances' = account_balances
       /\ (PeerInAddBlock /\ result["peer"] = "None" /\ result'["peer"] \notin {"None", "Ok"}) =>
             /\ blocks' = blocks
             /\ account_balances' = account_balances
       /\ \A i \in 1 .. Len(blocks) : Len(blocks') >= i /\ blocks'[i] = blocks[i]]_vars

\* the first block of a batch of two was rejected
C25_Witness ==
    /\ pc["peer"] = "returned"
    /\ result["peer"] \notin {"None", "Ok"}
    /\ Len(new_blocks) = 2

(***************************************************************************)
(* Properties of the PeerSync loop (SpecPeer, SpecPeerAlone).              *)
(***************************************************************************)
ChainUnchanged == blocks' = blocks /\ account_balances' = account_balances

PeerHoldsNoLock == blocks_lock # "peer" /\ balances_lock # "peer"

\* C26: when one peer's pull fails (the request fails, or the served list is
\* empty or too short), the panic is caught: that peer's pull appends nothing,
\* no lock of the chain is held by PeerSync, the loop goes on with the next
\* configured peer and after the last one with the push, and the PeerSync
\* thread never ends by a panic.
C26_PullFailureIsolated ==
    [][/\ (pc["peer"] \in {"p_tip", "p_fetch", "p_caught"} /\ pc'["peer"] # pc["peer"]) =>
             /\ ChainUnchanged
             /\ PeerHoldsNoLock /\ PeerHoldsNoLock'
       /\ (pc["peer"] = "p_fetch" /\ pc'["peer"] # "p_fetch") =>
             pc'["peer"] \in {"add_block", "p_next", "p_caught"}
       /\ (pc["peer"] = "p_caught" /\ pc'["peer"] # "p_caught") =>
             /\ pc'["peer"] = "p_next"
             /\ new_blocks' = <<>>
             /\ address_i' = address_i
             /\ pull_failed' = pull_failed \cup {peer_addresses[address_i]}
       /\ (pc["peer"] = "p_next" /\ pc'["peer"] # "p_next") =>
             IF address_i < Len(peer_addresses)
             THEN pc'["peer"] = "p_tip" /\ address_i' = address_i + 1
             ELSE pc'["peer"] = "s_since"
       /\ pc'["peer"] # "p_panicked"]_vars

\* a block of the second peer is submitted in a cycle in which the pull of the
\* first peer failed
C26_Witness ==
    /\ pc["peer"] = "add_block"
    /\ address_i = 2
    /\ pull_failed = {peer_addresses[1]}

\* C27: when a send fails, the chain is not changed and PeerSync goes on with
\* the next peer for that block, or with the next block.
C27_SendFailureIsolated ==
    [][(\E e \in attempted' \ attempted : ~e[3]) =>
          /\ ChainUnchanged
          /\ address_i < Len(peer_addresses) =>
                /\ pc'["peer"] = "s_send"
                /\ new_blocks' = new_blocks
                /\ address_i' = address_i + 1
          /\ (address_i = Len(peer_addresses) /\ Len(new_blocks) > 1) =>
                /\ pc'["peer"] = "s_send"
                /\ new_blocks' = Tail(new_blocks)
                /\ address_i' = 1]_vars

\* C28: when a cycle moves last_sent_block_index forward, every block above
\* the old value up to the new one was sent to every configured peer in that
\* cycle (no send of the cycle having failed).
C28_NoBlockSkipped ==
    [][(/\ pc["peer"] = "s_update" /\ pc'["peer"] = "s_sleep"
        /\ \A e \in attempted : e[3]) =>
          \A idx \in last_sent_block_index + 1 .. last_sent_block_index' :
             \A i \in 1 .. Len(peer_addresses) :
                <<peer_addresses[i], idx, TRUE>> \in attempted]_vars

\* add_block accepts the blocks of `rest` one after the other on top of `chain`
RECURSIVE Extends(_, _, _, _)
Extends(chain, balances, diff, rest) ==
    IF rest = <<>> THEN TRUE
    ELSE LET r == add_block(chain, balances, diff, rest[1]) IN
         /\ r.err = "Ok"
         /\ Extends(r.blocks, r.balances, diff, Tail(rest))

\* the peer's chain continues the local chain with blocks the local rules accept
ValidExtension ==
    /\ Len(blocks) <= Len(peer_blocks)
    /\ SubSeq(peer_blocks, 1, Len(blocks)) = blocks
    /\ Extends(blocks, account_balances, difficulty,
               SubSeq(peer_blocks, Len(blocks) + 1, Len(peer_blocks)))

PullPhaseOver == pc["peer"] \in {"s_since", "s_blocks", "s_send", "s_update", "s_sleep"}

\* C29: with PeerSync the only local writer and the peer's chain a valid
\* extension of the local one, the local chain equals the peer's chain once
\* the pull of the cycle is over, and to the end of the cycle.
C29_CycleCatchesUp ==
    /\ (PullPhaseOver /\ ValidExtension) => blocks = peer_blocks
    /\ (pc["peer"] \in {"p_tip", "p_fetch"} /\ address_i > 1 /\ ValidExtension) =>
          blocks = peer_blocks

\* the first cycle is at its end and has pulled two blocks
C29_Witness ==
    /\ pc["peer"] = "s_update"
    /\ last_sent_block_index = 0
    /\ Len(blocks) = 3
    /\ blocks = peer_blocks

\* C30: with no peer configured Peer::start returns Ok at once, whoever holds
\* the chain's locks, and does nothing afterwards; with a peer configured it
\* never returns and never panics: every cycle goes pull, push, update, sleep
\* and the next cycle follows, and PeerSync is never stuck but for a lock
\* another thread holds.
C30_CycleSteps ==
    /\ (peer_addresses = <<>> /\ pc["peer"] = "p_start") =>
          /\ pc'["peer"] \in {"p_start", "p_done"}
          /\ pc'["peer"] = "p_done" =>
                /\ result'["peer"] = "Ok"
                /\ ChainUnchanged
                /\ UNCHANGED <<lockVars, peerVars>>
    /\ pc["peer"] = "p_done" =>
          /\ pc'["peer"] = "p_done"
          /\ UNCHANGED <<new_blocks, last_index, syncVars>>
    /\ peer_addresses # <<>> => pc'["peer"] \notin {"p_done", "p_panicked"}
    /\ (pc["peer"] = "p_start" /\ peer_addresses # <<>>) => pc'["peer"] \in {"p_start", "p_next"}
    /\ pc["peer"] = "s_since" => pc'["peer"] \in {"s_since", "s_blocks"}
    /\ pc["peer"] = "s_blocks" => pc'["peer"] \in {"s_blocks", "s_send", "s_update"}
    /\ pc["peer"] = "s_send" => pc'["peer"] \in {"s_send", "s_update"}
    /\ pc["peer"] = "s_update" => pc'["peer"] \in {"s_update", "s_sleep"}
    /\ pc["peer"] = "s_sleep" =>
          \/ pc'["peer"] = "s_sleep"
          \/ pc'["peer"] = "p_next" /\ address_i' = 0

C30_NeverStuck ==
    /\ (peer_addresses = <<>> /\ pc["peer"] = "p_start") => ENABLED PeerStart
    /\ (peer_addresses # <<>> /\ blocks_lock # "api" /\ balances_lock # "api") =>
          ENABLED PeerSteps

C30_EmptyReturnsElseLoopsForever == []C30_NeverStuck /\ [][C30_CycleSteps]_vars

\* a cycle with a failed pull and a failed send has reached its sleep
C30_Witness ==
    /\ pc["peer"] = "s_sleep"
    /\ pull_failed # {}
    /\ \E e \in attempted : ~e[3]

(***************************************************************************)
(* Properties of the balance replay (SpecSeq).                             *)
(***************************************************************************)
\* the transactions of `call` with the two transfers after the coinbase swapped
Swapped(txs) == <<txs[1], txs[3], txs[2]>>

\* the second transfer of `call` is paid by an account that the first transfer
\* creates and funds
CreditThenSpend ==
    /\ ReachesTransfers
    /\ Len(CallTxs) = 3
    /\ 2 \notin FailingTransfers(call.before, CallTxs)
    /\ CallTxs[3].sender = CallTxs[2].recipient
    /\ CallTxs[3].sender \notin DOMAIN call.before
    /\ CallTxs[3].sender # CallTxs[1].recipient
    /\ CallTxs[3].amount <= CallTxs[2].amount

\* C32: what a call that reaches the replay returns and leaves as balances is
\* given by the snapshot it found and its transaction list alone; and when a
\* transfer is paid by an account an earlier transfer of the block created,
\* the block is accepted, while the same snapshot with the two transfers
\* swapped gives SenderAccountDoesNotExist and leaves the snapshot as it was.
C32_ReplayOrderSensitive ==
    /\ (call # NoCall /\ BrokenRules = {}) =>
          LET r == udpate_account_balance(call.before, CallTxs) IN
          /\ call.err = r.err
          /\ account_balances = r.balances
    /\ CreditThenSpend =>
          LET swapped == udpate_account_balance(call.before, Swapped(CallTxs)) IN
          /\ call.err = "Ok"
          /\ CallTxs[3].sender \in DOMAIN account_balances
          /\ swapped.err = "SenderAccountDoesNotExist"
          /\ swapped.balances = call.before

\* an accepted block whose second transfer spends what the first one paid to a
\* new account
C32_Witness ==
    /\ CreditThenSpend
    /\ call.err = "Ok"
    /\ Len(blocks) = 2

(***************************************************************************)
(* Properties of the Miner's use of the pool (SpecMiner).                  *)
(***************************************************************************)
MinerBusy == pc["miner"] \in {"m_mine", "add_block", "ab_balances", "ab_update", "ab_push",
                              "returned"}

\* C33: the Miner mines and submits only with a non-empty popped list: every
\* block it submits or has appended holds the coinbase and at least one pooled
\* transaction, and as long as nothing was added to the pool the Miner stays
\* at its pop (or stops at the block limit) and the chain is the genesis block.
C33_NoBlockFromEmptyPop ==
    /\ MinerBusy => transactions # <<>>
    /\ MinerSubmitting =>
          block["miner"].transactions
            = <<create_coinbase_transaction(miner_address)>> \o transactions
    /\ \A i \in 2 .. Len(blocks) :
          /\ Len(blocks[i].transactions) >= 2
          /\ blocks[i].transactions[1] = create_coinbase_transaction(miner_address)
          /\ \A k \in 2 .. Len(blocks[i].transactions) : blocks[i].transactions[k] \in PoolTxs
    /\ pool_adds = 0 =>
          /\ blocks = <<create_genesis_block>>
          /\ pc["miner"] \in {"m_pop", "m_stopped"}
          /\ transactions = <<>>

\* the Miner has appended a block with one pooled transaction and is back at
\* its pop with an empty pool
C33_Witness ==
    /\ Len(blocks) = 2
    /\ Len(blocks[2].transactions) = 2
    /\ pc["miner"] = "m_pop"
    /\ ~must_stop_mining(max_blocks, block_counter)
    /\ pool = <<>>

\* C34: with the Miner the only writer of the chain, every add_block call of
\* the Miner returns Ok.
C34_MinerBlockAccepted ==
    pc["miner"] = "returned" => result["miner"] = "Ok"

(***************************************************************************)
(* Conservation of the minted amount (Spec).                               *)
(***************************************************************************)
RECURSIVE SumOver(_, _)
SumOver(balances, accounts) ==
    IF accounts = {} THEN 0
    ELSE LET a == CHOOSE x \in accounts : TRUE IN
         balances[a] + SumOver(balances, accounts \ {a})

TotalBalance == SumOver(account_balances, DOMAIN account_balances)

\* the blocks whose subsidy is in the balances: those of the chain, and the one
\* an add_block call has replayed and is about to push
BlocksReplayed ==
    Len(blocks) - 1 + (IF \E t \in Threads : pc[t] = "ab_push" THEN 1 ELSE 0)

HoldsChainLock(t) == blocks_lock = t \/ balances_lock = t

HoldsLock(t) == HoldsChainLock(t) \/ pool_lock = t

\* C31: no thread holds a lock of the Chain and the lock of the pool at the
\* same time; the balance lock is only taken inside the block-list lock; and
\* a thread that holds a lock always has a step to take, so no thread waits
\* for a lock whose holder waits too: no state is a deadlock.
C31_NoLockOrderHazard ==
    \A t \in Threads :
        /\ ~(HoldsChainLock(t) /\ pool_lock = t)
        /\ balances_lock = t => blocks_lock = t
        /\ HoldsLock(t) => ENABLED LockSteps(t)

\* the Miner is inside pop, the API inside add_block's nested locks, and
\* PeerSync waits for the block-list lock
C31_Witness ==
    /\ pool_lock = "miner"
    /\ blocks_lock = "api" /\ balances_lock = "api"
    /\ pc["peer"] = "add_block"

(***************************************************************************)
(* Properties of the Miner under a fair scheduler (SpecMinerFair).         *)
(***************************************************************************)
\* how often tx stands after the coinbase in the blocks of `chain`
RECURSIVE ChainCount(_, _)
ChainCount(chain, tx) ==
    IF Len(chain) <= 1 THEN 0
    ELSE LET txs == chain[Len(chain)].transactions IN
         ChainCount(SubSeq(chain, 1, Len(chain) - 1), tx)
           + (IF txs = <<>> THEN 0 ELSE Count(Tail(txs), tx))

\* how often tx was added to the pool: it waits there, or the Miner holds it,
\* or it is in the chain
\* (after a successful add_block the Miner's batch is in the chain already)
MinerHolds ==
    IF pc["miner"] = "returned" /\ result["miner"] = "Ok" THEN <<>> ELSE transactions

TimesAdded(tx) == Count(pool, tx) + Count(MinerHolds, tx) + ChainCount(blocks, tx)

MinerTerminated == pc["miner"] \in {"m_stopped", "m_failed"}

\* C23 as stated: unless the nonce bound is too small for the difficulty or the
\* block limit stops the Miner, every transaction added to the pool is
\* eventually in a block of the chain, after the coinbase.
C23_EveryAddedTransactionMined ==
    \A tx \in PoolTxs : \A n \in 1 .. MaxPoolAdds :
        (TimesAdded(tx) >= n)
          ~> \/ ChainCount(blocks, tx) >= n
             \/ result["miner"] = "BlockNotMined"
             \/ pc["miner"] = "m_stopped"

\* What the code does guarantee: every transaction added to the pool is
\* eventually in a block of the chain, after the coinbase, unless the Miner's
\* loop has ended (block limit, nonce exhaustion, or add_block rejected the
\* block that carried it).
C23_MinedUnlessMinerEnded ==
    \A tx \in PoolTxs : \A n \in 1 .. MaxPoolAdds :
        (TimesAdded(tx) >= n) ~> (ChainCount(blocks, tx) >= n \/ MinerTerminated)

\* a transaction added twice stands twice in the chain after coinbases, and the
\* Miner is still running
C23_Witness ==
    /\ \E tx \in PoolTxs : ChainCount(blocks, tx) = 2
    /\ Len(blocks) = 3
    /\ pc["miner"] = "m_pop"
    /\ ~must_stop_mining(max_blocks, block_counter)


(***************************************************************************)
(* Where the transactions a pop drained are (SpecMiner).                   *)
(***************************************************************************)
RECURSIVE SumTimesAdded(_)
SumTimesAdded(txs) ==
    IF txs = {} THEN 0
    ELSE LET tx == CHOOSE x \in txs : TRUE IN TimesAdded(tx) + SumTimesAdded(txs \ {tx})

\* every added transaction is in exactly one place: the pool, the Miner's
\* popped list, or a block of the chain
C36_EachInOnePlace == SumTimesAdded(PoolTxs) = pool_adds

\* the step that ends the Miner with an error leaves the pool as it is, and
\* afterwards the Miner's popped list is dropped with it: the pool only grows
\* by what the API adds and the chain does not change
C36_FailureStep ==
    /\ (pc["miner"] # "m_failed" /\ pc'["miner"] = "m_failed") =>
          /\ pool' = pool
          /\ blocks' = blocks
          /\ transactions' = transactions /\ transactions # <<>>
    /\ pc["miner"] = "m_failed" =>
          /\ pc'["miner"] = "m_failed"
          /\ transactions' = transactions
          /\ blocks' = blocks
          /\ pool' = pool \/ \E tx \in PoolTxs : pool' = Append(pool, tx)

\* C36: the transactions a pop drained leave the pool with that pop and are
\* never put back: when the nonce search is exhausted or add_block rejects the
\* block, they are held by the ended Miner only, in neither pool nor chain.
C36_DrainedNeverRequeued == []C36_EachInOnePlace /\ [][C36_FailureStep]_vars

\* the Miner has ended on a rejected block, and a transaction added after its
\* pop waits in the pool
C36_Witness ==
    /\ pc["miner"] = "m_failed"
    /\ result["miner"] \in TransferErrors
    /\ transactions # <<>>
    /\ pool # <<>>
    /\ blocks = <<create_genesis_block>>


(***************************************************************************)
(* The push of pulled blocks (SpecPeerAlone: every local block after the   *)
(* genesis block was pulled from a peer).                                  *)
(***************************************************************************)
\* C37: at the end of a cycle's push every block the cycle pulled, that is
\* every block above the push baseline last_sent_block_index, has been sent
\* to every configured peer, the peer it came from included.
C37_PulledBlocksPushedSameCycle ==
    [][(pc["peer"] = "s_update" /\ pc'["peer"] = "s_sleep") =>
          \A idx \in last_sent_block_index + 1 .. get_last_block(blocks).index :
             \A i \in 1 .. Len(peer_addresses) :
                \E sent \in BOOLEAN : <<peer_addresses[i], idx, sent>> \in attempted]_vars

====
